---- MODULE Spec2Model ----
(***************************************************************************)
(* uniquelist<T, Compare>: a std::list of links cross-linked with a        *)
(* std::map keyed by the stored values (include/uniquelist/uniquelist.h),  *)
(* together with sized_ptr and its shortlex operator< (sized_ptr.h).       *)
(*                                                                         *)
(* Nodes of both containers are modelled with stable identities, the way   *)
(* std::list and std::map iterators stay valid while other nodes come and  *)
(* go: a list node is [node, link] where link names a map node, a map node *)
(* is [node, first, link] where first is the key and link names a list     *)
(* node.  `list` is kept in sequence order and `map` in key order.         *)
(*                                                                         *)
(* Spec is the container under std::less and operator<, with every public  *)
(* call; SpecTol the container of arrays under strictly_less, filled with  *)
(* push_back and push_back_with_hook; SpecView the container the Python    *)
(* module fills with deep copies of views (src/python_api.cpp), with the   *)
(* caller free to overwrite its buffers; SpecCmp the two array comparisons *)
(* as functions of their operands; SpecScalar the scalar comparison of     *)
(* strictly_less as a function of its operands and tolerances; SpecPy the  *)
(* two classes of the Python module, called with arrays of any length and  *)
(* order, and SpecPyList its UniqueList alone; SpecHook the container of   *)
(* scalars under hooks that return what they like; SpecThrow the calls of  *)
(* Spec with hooks that throw.                                             *)
(***************************************************************************)
EXTENDS Integers, Sequences, FiniteSets, TLC

VARIABLES
    list,   \* uniquelist::list: the list nodes, in sequence order
    map,    \* uniquelist::map: the map nodes, in comparator order
    comp,   \* the Compare template argument of this instantiation
    call,   \* the most recent public call: its arguments and what it returned
    pushed  \* history: the classes (by KeyRank) handed to an insert-family
            \* call so far

vars == <<list, map, comp, call, pushed>>

----------------------------------------------------------------------------
(* Bounds of the model *)

\* largest number of elements the container is grown to
MaxSize == 3

\* scalar keys are 0..MaxVal
MaxVal == 2

\* the arrays that are compared with one another have at most MaxLen
\* elements, each in 0..MaxElem
MaxLen == 2

MaxElem == 3

----------------------------------------------------------------------------
(* Keys *)

\* contents of the array keys handed to the container
Arrays == << <<1>>, <<0, 1>>, <<1, 0>> >>

\* contents of the array keys handed to a container that compares with
\* strictly_less; the elements count units of 1e-6, the default atol
TolArrays == << <<0, 3>>, <<2, 1>>, <<1, 1>>, <<2, -1>> >>

\* the contents for the instantiation c
ArraysOf(c) == IF c = "strictly_less" THEN TolArrays ELSE Arrays

ArrayData(c) == {ArraysOf(c)[i] : i \in 1..Len(ArraysOf(c))}

\* sized_ptr{size, ptr}: data is the content of the block ptr points to,
\* ptr tells whose block it is ("caller": the block the caller passed in,
\* "copy": a block allocated by deepcopy)
sized_ptr(d, p) == [size |-> Len(d), data |-> d, ptr |-> p]

\* the values a caller passes for the instantiation c: scalars for
\* uniquelist<T>, arrays for uniquelist<sized_ptr<P>>
Keys(c) ==
    IF c = "less" THEN 0..MaxVal
    ELSE {sized_ptr(d, "caller") : d \in ArrayData(c)}

----------------------------------------------------------------------------
(* Iterators *)

\* the map node made for a key is given the number of the key's content as
\* its identity, a list node the identity of the map node it links to
KeyRank(val) ==
    IF comp = "less" THEN val + 1
    ELSE CHOOSE i \in 1..Len(ArraysOf(comp)) : ArraysOf(comp)[i] = val.data

MaxWant == MaxVal + 1 + Len(Arrays) + Len(TolArrays)

\* std::end(list): the past-the-end position of the sequence
End == 0

\* a value-initialised iterator, as in map_item_type{}
Singular == -1

Min(S) == CHOOSE x \in S : \A y \in S : x <= y

NodesOf(s) == {s[i].node : i \in 1..Len(s)}

\* The identity (address) of a new node of s.  The allocator may hand out
\* any address not in use; the model hands out `want` when it is free and
\* the smallest free identity above every wanted one otherwise.
NewNode(s, want) ==
    IF want \notin NodesOf(s) THEN want
    ELSE Min({n \in (MaxWant + 1)..(MaxWant + Len(s) + 1) : n \notin NodesOf(s)})

\* position (1-based) of the node with identity n in s; Len(s)+1 for the end
IndexOf(s, n) ==
    IF n \in NodesOf(s) THEN CHOOSE i \in 1..Len(s) : s[i].node = n
    ELSE Len(s) + 1

InsertAt(s, i, e) == SubSeq(s, 1, i - 1) \o <<e>> \o SubSeq(s, i, Len(s))

RemoveAt(s, i) == SubSeq(s, 1, i - 1) \o SubSeq(s, i + 1, Len(s))

----------------------------------------------------------------------------
(* Comparators and hooks *)

RECURSIVE sized_ptr_scan(_, _, _)
\* the for loop of operator<(sized_ptr, sized_ptr), from index i on
sized_ptr_scan(l, r, i) ==
    IF i > l.size THEN FALSE
    ELSE IF l.data[i] < r.data[i] THEN TRUE
    ELSE IF l.data[i] > r.data[i] THEN FALSE
    ELSE sized_ptr_scan(l, r, i + 1)

\* operator< with the answers for unequal sizes exchanged
sized_ptr_less_longer_first(l, r) ==
    IF l.size < r.size THEN FALSE
    ELSE IF l.size > r.size THEN TRUE
    ELSE sized_ptr_scan(l, r, 1)

\* friend bool operator<(const sized_ptr<P> &l, const sized_ptr<Q> &r)
sized_ptr_less(l, r) ==
    IF l.size < r.size THEN TRUE
    ELSE IF l.size > r.size THEN FALSE
    ELSE sized_ptr_scan(l, r, 1)

\* 1 / rtol and 1 / atol of strictly_less(rtol = 1e-6, atol = 1e-6)
InvTol == 1000000

Abs(x) == IF x > 0 THEN x ELSE -x

\* strictly_less::operator()(T a, T b) on numbers a, b that count units of
\* 1 / InvTol: a < b - |b| * rtol - atol, both sides multiplied by InvTol
strictly_less_scalar(a, b) == a * InvTol < b * InvTol - Abs(b) - InvTol

RECURSIVE strictly_less_scan(_, _, _)
\* the for loop of strictly_less::operator()(sized_ptr, sized_ptr), from
\* index i on
strictly_less_scan(a, b, i) ==
    IF i > a.size THEN FALSE
    ELSE IF strictly_less_scalar(a.data[i], b.data[i]) THEN TRUE
    ELSE IF strictly_less_scalar(b.data[i], a.data[i]) THEN FALSE
    ELSE strictly_less_scan(a, b, i + 1)

\* strictly_less whose loop stops after the first element
strictly_less_first_only(a, b) ==
    IF a.size < b.size THEN TRUE
    ELSE IF a.size > b.size THEN FALSE
    ELSE a.size > 0 /\ strictly_less_scalar(a.data[1], b.data[1])

\* strictly_less::operator()(const sized_ptr<S> &a, const sized_ptr<T> &b)
strictly_less(a, b) ==
    IF a.size < b.size THEN TRUE
    ELSE IF a.size > b.size THEN FALSE
    ELSE strictly_less_scan(a, b, 1)

\* the comparator object of the map: std::less<T>, which is operator<, or
\* strictly_less
Compare(a, b) ==
    IF comp = "less" THEN a < b
    ELSE IF comp = "sized_ptr" THEN sized_ptr_less(a, b)
    ELSE strictly_less(a, b)

\* deepcopy that hands back the pointer it was given
deepcopy_shallow(p) == p

\* deepcopy(p): same size and content, in a block of its own
deepcopy(p) == [p EXCEPT !.ptr = "copy"]

\* the hook f handed to the *_with_hook calls, applied to val: deepcopy,
\* a copy of the value, or a callable of the caller's that returns one
\* fixed scalar ("constant") or the scalar that follows val ("next")
Hook(f, val) ==
    IF f = "deepcopy" THEN deepcopy(val)
    ELSE IF f = "constant" THEN 0
    ELSE IF f = "next" THEN (val + 1) % (MaxVal + 1)
    ELSE val

\* whether the hook f leaves by an exception instead of returning
Throws(f) == f = "throw"

\* the hooks a caller passes for the instantiation c
Hooks(c) == IF c = "less" THEN {"copy"} ELSE {"deepcopy"}

\* hooks of uniquelist<int> whose result need not be equivalent to the
\* argument
AnyHooks == {"copy", "constant", "next"}

----------------------------------------------------------------------------
(* std::map<T, map_item_type, Compare> *)

\* lower_bound that passes the keys equivalent to k
lower_bound_past(m, k) ==
    Min({i \in 1..(Len(m) + 1) : i = Len(m) + 1 \/ Compare(k, m[i].first)})

\* map.lower_bound(k): the first position whose key is not less than k
lower_bound(m, k) ==
    Min({i \in 1..(Len(m) + 1) : i = Len(m) + 1 \/ ~Compare(m[i].first, k)})

\* map.upper_bound(k): the first position whose key is greater than k
upper_bound(m, k) ==
    Min({i \in 1..(Len(m) + 1) : i = Len(m) + 1 \/ Compare(k, m[i].first)})

\* count that answers the number of entries below k
map_count_below(m, k) == lower_bound(m, k) - 1

\* map.count(k)
map_count(m, k) == upper_bound(m, k) - lower_bound(m, k)

\* map_insert that puts a new entry after all the others
map_insert_last(m, val) ==
    LET i == lower_bound(m, val) IN
    IF i <= Len(m) /\ ~Compare(val, m[i].first)
    THEN [map |-> m, it |-> m[i].node, status |-> FALSE]
    ELSE LET n == NewNode(m, KeyRank(val)) IN
         [map |-> Append(m, [node |-> n, first |-> val, link |-> Singular]),
          it |-> n, status |-> TRUE]

\* map.insert(std::pair(val, map_item_type{})) and map.try_emplace(val, ...):
\* the pair (iterator, inserted)
map_insert(m, val) ==
    LET i == lower_bound(m, val) IN
    IF i <= Len(m) /\ ~Compare(val, m[i].first)
    THEN [map |-> m, it |-> m[i].node, status |-> FALSE]
    ELSE LET n == NewNode(m, KeyRank(val)) IN
         [map |-> InsertAt(m, i, [node |-> n, first |-> val, link |-> Singular]),
          it |-> n, status |-> TRUE]

\* map.emplace_hint(hint, val, map_item_type{}): inserted right before hint
\* when val belongs there, searched for as by insert otherwise; the iterator
\* to the new node, or to the node that already holds an equivalent key
map_emplace_hint(m, hint, val) ==
    LET h == IndexOf(m, hint)
        fits == /\ (h = 1 \/ Compare(m[h - 1].first, val))
                /\ (h = Len(m) + 1 \/ Compare(val, m[h].first))
        n == NewNode(m, KeyRank(val))
    IN IF fits
       THEN [map |-> InsertAt(m, h, [node |-> n, first |-> val, link |-> Singular]),
             it |-> n]
       ELSE LET r == map_insert(m, val) IN [map |-> r.map, it |-> r.it]

\* map.erase(it)
map_erase(m, it) == RemoveAt(m, IndexOf(m, it))

\* ++it on a map iterator
map_next(m, it) ==
    LET i == IndexOf(m, it) IN IF i < Len(m) THEN m[i + 1].node ELSE End

\* set_link that leaves the map node's link as it was constructed
set_link_skipped(m, it, l) == m

\* it->second.link = l, for the map iterator it
set_link(m, it, l) ==
    [i \in 1..Len(m) |-> IF m[i].node = it THEN [m[i] EXCEPT !.link = l] ELSE m[i]]

\* it->first and it->second.link, for the map iterator it
first_of(m, it) == m[IndexOf(m, it)].first

link_of(m, it) == m[IndexOf(m, it)].link

----------------------------------------------------------------------------
(* std::list<list_item_type> *)

\* std::begin(list)
begin(l) == IF Len(l) = 0 THEN End ELSE l[1].node

\* list_insert that links the new node right after position
list_insert_after(l, position, link) ==
    LET n == NewNode(l, link)
        i == IF position = End THEN Len(l) + 1 ELSE IndexOf(l, position) + 1
    IN [list |-> InsertAt(l, i, [node |-> n, link |-> link]), it |-> n]

\* list_insert that moves the nodes from position on to new addresses, the
\* way an insert into a contiguous array does
list_insert_moving(l, position, link) ==
    LET n == NewNode(l, link)
        i == IndexOf(l, position)
        tail == [k \in 1..(Len(l) - i + 1) |->
                    [node |-> MaxWant + Len(l) + 1 + l[i + k - 1].node,
                     link |-> l[i + k - 1].link]]
    IN [list |-> SubSeq(l, 1, i - 1) \o <<[node |-> n, link |-> link]>> \o tail,
        it |-> n]

\* list.insert(position, list_item_type{link}): a new node right before
\* position; the iterator to it
list_insert(l, position, link) ==
    LET n == NewNode(l, link) IN
    [list |-> InsertAt(l, IndexOf(l, position), [node |-> n, link |-> link]),
     it |-> n]

\* list.erase(it): the iterator to the node that followed
list_erase(l, it) ==
    LET i == IndexOf(l, it) IN
    [list |-> RemoveAt(l, i),
     it |-> IF i < Len(l) THEN l[i + 1].node ELSE End]

\* distance, counted from one
distance_from_one(l, it) == IndexOf(l, it)

\* std::distance(std::begin(list), it)
distance(l, it) == IndexOf(l, it) - 1

\* std::advance(it, d) where it stays within [begin, end]
advance(l, it, d) ==
    LET i == IndexOf(l, it) + d IN
    IF i \in 1..Len(l) THEN l[i].node ELSE End

\* whether std::advance(it, d) leaves [begin, end]
steps_out(l, it, d) == (IndexOf(l, it) + d) \notin 1..(Len(l) + 1)

\* iterator_wrapper::get_map_iterator of a list iterator: it->link
get_map_iterator(l, it) == l[IndexOf(l, it)].link

----------------------------------------------------------------------------
(* uniquelist member functions, as functions of the two containers *)

\* insert without the test of status: the list grows on a duplicate too
insert_unchecked(l, m, position, val) ==
    LET r == map_insert(m, val)
        li == list_insert(l, position, r.it)
        m2 == set_link(r.map, r.it, li.it)
    IN [list |-> li.list, map |-> m2,
        first |-> distance(li.list, link_of(m2, r.it)), second |-> r.status]

\* insert that ignores position and links the new node at the end
insert_at_end(l, m, position, val) ==
    LET r == map_insert(m, val) IN
    IF r.status
    THEN LET li == list_insert(l, End, r.it)
             m2 == set_link(r.map, r.it, li.it)
         IN [list |-> li.list, map |-> m2,
             first |-> distance(li.list, link_of(m2, r.it)), second |-> TRUE]
    ELSE [list |-> l, map |-> m,
          first |-> distance(l, link_of(m, r.it)), second |-> FALSE]

\* uniquelist::insert(position, val): both overloads
insert(l, m, position, val) ==
    LET r == map_insert(m, val) IN
    IF r.status
    THEN LET li == list_insert(l, position, r.it)
             m2 == set_link(r.map, r.it, li.it)
         IN [list |-> li.list, map |-> m2,
             first |-> distance(li.list, link_of(m2, r.it)), second |-> TRUE]
    ELSE [list |-> l, map |-> m,
          first |-> distance(l, link_of(m, r.it)), second |-> FALSE]

\* insert_with_hook that runs the hook before it knows whether val is new
insert_with_hook_eager(l, m, position, val, f) ==
    LET stored == Hook(f, val)
        r == map_insert(m, stored)
    IN IF r.status
       THEN LET li == list_insert(l, position, r.it)
                m2 == set_link(r.map, r.it, li.it)
            IN [list |-> li.list, map |-> m2,
                first |-> distance(li.list, link_of(m2, r.it)),
                second |-> TRUE, hooked |-> 1, error |-> FALSE]
       ELSE [list |-> l, map |-> m,
             first |-> distance(l, link_of(m, r.it)), second |-> FALSE,
             hooked |-> 1, error |-> FALSE]

\* insert_with_hook without the first map.insert: the hook's result is
\* emplaced and linked whether or not val was new
insert_with_hook_untested(l, m, position, val, f) ==
    LET e == map_emplace_hint(m, End, Hook(f, val))
        li == list_insert(l, position, e.it)
        m2 == set_link(e.map, e.it, li.it)
    IN [list |-> li.list, map |-> m2,
        first |-> distance(li.list, link_of(m2, e.it)), second |-> TRUE,
        hooked |-> 1, error |-> FALSE]

\* insert_with_hook that runs the hook while the entry of the novelty
\* test is still in the map
insert_with_hook_entry_kept(l, m, position, val, f) ==
    LET try == map_insert(m, val) IN
    IF try.status
    THEN IF Throws(f)
         THEN [list |-> l, map |-> try.map, first |-> 0, second |-> FALSE,
               hooked |-> 1, error |-> TRUE]
         ELSE LET m1 == set_link(try.map, try.it, End)
                  li == list_insert(l, position, try.it)
                  m2 == set_link(m1, try.it, li.it)
              IN [list |-> li.list, map |-> m2,
                  first |-> distance(li.list, li.it), second |-> TRUE,
                  hooked |-> 1, error |-> FALSE]
    ELSE [list |-> l, map |-> m,
          first |-> distance(l, link_of(m, try.it)), second |-> FALSE,
          hooked |-> 0, error |-> FALSE]

\* uniquelist::insert_with_hook(position, val, f); hooked counts the
\* evaluations of f(val), error tells whether f threw: f(val) is evaluated
\* after the entry of the novelty test is erased and before anything is
\* emplaced or linked
insert_with_hook(l, m, position, val, f) ==
    LET try == map_insert(m, val) IN
    IF try.status
    THEN LET hint == map_next(try.map, try.it)
             m1 == map_erase(try.map, try.it)
         IN IF Throws(f)
            THEN [list |-> l, map |-> m1, first |-> 0, second |-> FALSE,
                  hooked |-> 1, error |-> TRUE]
            ELSE LET e == map_emplace_hint(m1, hint, Hook(f, val))
                     li == list_insert(l, position, e.it)
                     m2 == set_link(e.map, e.it, li.it)
                 IN [list |-> li.list, map |-> m2,
                     first |-> distance(li.list, link_of(m2, e.it)),
                     second |-> TRUE, hooked |-> 1, error |-> FALSE]
    ELSE [list |-> l, map |-> m,
          first |-> distance(l, link_of(m, try.it)), second |-> FALSE,
          hooked |-> 0, error |-> FALSE]

\* push_back that hands begin() to insert
push_back_front(l, m, key) == insert(l, m, begin(l), key)

\* uniquelist::push_back(key): both overloads
push_back(l, m, key) == insert(l, m, End, key)

\* uniquelist::push_back_with_hook(key, f)
push_back_with_hook(l, m, key, f) == insert_with_hook(l, m, End, key, f)

\* erase that forgets the map
erase_list_only(l, m, it) ==
    LET le == list_erase(l, it) IN [list |-> le.list, map |-> m, it |-> le.it]

\* erase that returns begin() and not what list.erase returned
erase_returns_begin(l, m, it) ==
    LET m1 == map_erase(m, get_map_iterator(l, it))
        le == list_erase(l, it)
    IN [list |-> le.list, map |-> m1, it |-> begin(le.list)]

\* uniquelist::erase(iterator_wrapper it), it a list iterator
erase(l, m, it) ==
    LET m1 == map_erase(m, get_map_iterator(l, it))
        le == list_erase(l, it)
    IN [list |-> le.list, map |-> m1, it |-> le.it]

\* uniquelist::erase(size_t index)
erase_at(l, m, index) == erase(l, m, advance(l, begin(l), index))

RECURSIVE erase_loop(_, _, _, _, _, _)
\* the for loop of uniquelist::erase(n, indexes), from i on (1-based);
\* ub tells whether the cursor left [begin, end) before an erase
erase_loop(l, m, cursor, prev_pos, indexes, i) ==
    IF i > Len(indexes) THEN [list |-> l, map |-> m, ub |-> FALSE]
    ELSE LET d == indexes[i] - prev_pos - 1 IN
         IF steps_out(l, cursor, d) \/ advance(l, cursor, d) = End
         THEN [list |-> l, map |-> m, ub |-> TRUE]
         ELSE LET e == erase(l, m, advance(l, cursor, d)) IN
              erase_loop(e.list, e.map, e.it, indexes[i], indexes, i + 1)

\* bulk erase whose cursor starts at begin() and not one past it
erase_many_from_begin(l, m, indexes) ==
    erase_loop(l, m, begin(l), 0, indexes, 1)

\* uniquelist::erase(size_t n, const U *indexes), n = Len(indexes)
erase_many(l, m, indexes) ==
    IF steps_out(l, begin(l), 1)
    THEN [list |-> l, map |-> m, ub |-> TRUE]
    ELSE erase_loop(l, m, advance(l, begin(l), 1), 0, indexes, 1)

RECURSIVE erase_nonzero_loop(_, _, _, _, _)
\* the for loop of uniquelist::erase_nonzero(n, flag), from i on (1-based);
\* ub tells whether the cursor was erased or advanced at end()
erase_nonzero_loop(l, m, cursor, flag, i) ==
    IF i > Len(flag) THEN [list |-> l, map |-> m, ub |-> FALSE]
    ELSE IF cursor = End THEN [list |-> l, map |-> m, ub |-> TRUE]
    ELSE IF flag[i]
         THEN LET e == erase(l, m, cursor) IN
              erase_nonzero_loop(e.list, e.map, e.it, flag, i + 1)
         ELSE erase_nonzero_loop(l, m, advance(l, cursor, 1), flag, i + 1)

\* erase_nonzero whose loop stops one flag early
erase_nonzero_short(l, m, flag) ==
    erase_nonzero_loop(l, m, begin(l), SubSeq(flag, 1, Len(flag) - 1), 1)

\* erase_nonzero that takes the elements past the last flag as flagged
erase_nonzero_padded(l, m, flag) ==
    erase_nonzero_loop(l, m, begin(l),
                       [i \in 1..Len(l) |-> IF i <= Len(flag) THEN flag[i]
                                             ELSE TRUE], 1)

\* uniquelist::erase_nonzero(size_t n, const U *flag), n = Len(flag)
erase_nonzero(l, m, flag) == erase_nonzero_loop(l, m, begin(l), flag, 1)

\* clear that forgets the map
clear_list_only(l, m) == [list |-> <<>>, map |-> m]

\* uniquelist::clear(): list.clear() and map.clear()
clear(l, m) == [list |-> <<>>, map |-> <<>>]

\* isin with >= for >
isin_nonneg(m, val) == map_count(m, val) >= 0

\* uniquelist::isin(val)
isin(m, val) == map_count(m, val) > 0

\* uniquelist::size() and uniquelist::empty()
size(l) == Len(l)

empty(l) == l = <<>>

\* iterator_wrapper::operator* of a list iterator: it->link->first
deref(l, m, it) == first_of(m, get_map_iterator(l, it))

\* what begin()..end() yields: *it is it->link->first
Elements(l, m) == [i \in 1..Len(l) |-> first_of(m, l[i].link)]

\* what sbegin()..send() yields: *it is it->first
Sorted(m) == [i \in 1..Len(m) |-> m[i].first]

----------------------------------------------------------------------------
(* The public calls *)

\* the record of a call: the arguments it was given and what it returned
\* (val, rhs: the key, and the right operand of a comparison; first,
\* second: the returned pair; it: the returned iterator; hooked: how often
\* the hook ran; ub: whether the call left the defined behaviour; ndim:
\* the dimensions of the array handed to a binding; error: whether the
\* call threw; hook: the hook it was given; rtol, atol: the tolerances of
\* a scalar comparison; back: its answer with the operands exchanged)
NoCall(c) ==
    [op |-> "none",
     val |-> IF c = "less" THEN 0 ELSE sized_ptr(ArraysOf(c)[1], "caller"),
     rhs |-> IF c = "less" THEN 0 ELSE sized_ptr(ArraysOf(c)[1], "caller"),
     position |-> End,
     indexes |-> <<>>, flag |-> <<>>,
     first |-> 0, second |-> FALSE, it |-> End, hooked |-> 0, ub |-> FALSE,
     ndim |-> 1, error |-> FALSE, hook |-> "none",
     rtol |-> 0, atol |-> 0, back |-> FALSE]

\* the list iterators a caller can hold: one per element, and end()
Positions(l) == NodesOf(l) \cup {End}

\* the model grows the container to MaxSize elements at most
Room(l, m, val) == size(l) < MaxSize \/ isin(m, val)

RECURSIVE Ascending(_)
\* the members of the set S of numbers, as an increasing sequence
Ascending(S) ==
    IF S = {} THEN <<>>
    ELSE <<Min(S)>> \o Ascending(S \ {Min(S)})

Init ==
    /\ list = <<>>
    /\ map = <<>>
    /\ comp \in {"less", "sized_ptr"}
    /\ call = NoCall(comp)
    /\ pushed = {}

\* list.push_back(key)
PushBack ==
    \E val \in Keys(comp) :
        /\ Room(list, map, val)
        /\ \E r \in {push_back(list, map, val)} :
           /\ list' = r.list
           /\ map' = r.map
           /\ call' = [NoCall(comp) EXCEPT !.op = "push_back", !.val = val,
                           !.first = r.first, !.second = r.second]
        /\ pushed' = pushed \cup {KeyRank(val)}
        /\ UNCHANGED comp

\* list.insert(position, val)
Insert ==
    \E val \in Keys(comp), position \in Positions(list) :
        /\ Room(list, map, val)
        /\ \E r \in {insert(list, map, position, val)} :
           /\ list' = r.list
           /\ map' = r.map
           /\ call' = [NoCall(comp) EXCEPT !.op = "insert", !.val = val,
                           !.position = position,
                           !.first = r.first, !.second = r.second]
        /\ pushed' = pushed \cup {KeyRank(val)}
        /\ UNCHANGED comp

\* list.push_back_with_hook(key, f)
PushBackWithHook ==
    \E val \in Keys(comp), f \in Hooks(comp) :
        /\ Room(list, map, val)
        /\ \E r \in {push_back_with_hook(list, map, val, f)} :
           /\ list' = r.list
           /\ map' = r.map
           /\ call' = [NoCall(comp) EXCEPT !.op = "push_back_with_hook",
                           !.val = val, !.first = r.first,
                           !.second = r.second, !.hooked = r.hooked]
        /\ pushed' = pushed \cup {KeyRank(val)}
        /\ UNCHANGED comp

\* list.insert_with_hook(position, val, f)
InsertWithHook ==
    \E val \in Keys(comp), position \in Positions(list), f \in Hooks(comp) :
        /\ Room(list, map, val)
        /\ \E r \in {insert_with_hook(list, map, position, val, f)} :
           /\ list' = r.list
           /\ map' = r.map
           /\ call' = [NoCall(comp) EXCEPT !.op = "insert_with_hook",
                           !.val = val, !.position = position,
                           !.first = r.first, !.second = r.second,
                           !.hooked = r.hooked]
        /\ pushed' = pushed \cup {KeyRank(val)}
        /\ UNCHANGED comp

\* list.erase(it), it an iterator to an element
Erase ==
    \E it \in NodesOf(list) :
        /\ \E r \in {erase(list, map, it)} :
           /\ list' = r.list
           /\ map' = r.map
           /\ call' = [NoCall(comp) EXCEPT !.op = "erase", !.position = it,
                           !.it = r.it]
        /\ UNCHANGED <<comp, pushed>>

\* list.erase(index), index < size()
EraseAt ==
    \E index \in 0..(size(list) - 1) :
        /\ \E r \in {erase_at(list, map, index)} :
           /\ list' = r.list
           /\ map' = r.map
           /\ call' = [NoCall(comp) EXCEPT !.op = "erase_at",
                           !.indexes = <<index>>, !.it = r.it]
        /\ UNCHANGED <<comp, pushed>>

\* list.erase(n, indexes), indexes increasing and below size()
EraseMany ==
    \E S \in SUBSET (0..(size(list) - 1)) :
        /\ \E r \in {erase_many(list, map, Ascending(S))} :
           /\ list' = r.list
           /\ map' = r.map
           /\ call' = [NoCall(comp) EXCEPT !.op = "erase_many",
                           !.indexes = Ascending(S), !.ub = r.ub]
        /\ UNCHANGED <<comp, pushed>>

\* list.erase_nonzero(n, flag), n <= size()
EraseNonzero ==
    \E n \in 0..size(list) :
        \E flag \in [1..n -> BOOLEAN] :
            /\ \E r \in {erase_nonzero(list, map, flag)} :
               /\ list' = r.list
               /\ map' = r.map
               /\ call' = [NoCall(comp) EXCEPT !.op = "erase_nonzero",
                               !.flag = flag]
            /\ UNCHANGED <<comp, pushed>>

\* list.clear()
Clear ==
    /\ \E r \in {clear(list, map)} :
       /\ list' = r.list
       /\ map' = r.map
    /\ call' = [NoCall(comp) EXCEPT !.op = "clear"]
    /\ UNCHANGED <<comp, pushed>>

\* list.isin(val)
Isin ==
    \E val \in Keys(comp) :
        /\ call' = [NoCall(comp) EXCEPT !.op = "isin", !.val = val,
                        !.second = isin(map, val)]
        /\ UNCHANGED <<list, map, comp, pushed>>

Next ==
    \/ PushBack
    \/ Insert
    \/ PushBackWithHook
    \/ InsertWithHook
    \/ Erase
    \/ EraseAt
    \/ EraseMany
    \/ EraseNonzero
    \/ Clear
    \/ Isin

Spec == Init /\ [][Next]_vars

\* uniquelist<sized_ptr, strictly_less>, the container of arrays that
\* compares with tolerance, from construction on
InitTol ==
    /\ list = <<>>
    /\ map = <<>>
    /\ comp = "strictly_less"
    /\ call = NoCall(comp)
    /\ pushed = {}

\* the calls that add elements at the end
NextPush ==
    \/ PushBack
    \/ PushBackWithHook

SpecTol == InitTol /\ [][NextPush]_vars

\* UniqueArrayList of the Python module: uniquelist<sized_ptr,
\* strictly_less>, from construction on
InitView ==
    /\ list = <<>>
    /\ map = <<>>
    /\ comp = "strictly_less"
    /\ call = NoCall(comp)
    /\ pushed = {}

\* the map entries whose key points to a block of the caller's
Aliases(m) == {i \in 1..Len(m) : m[i].first.ptr = "caller"}

\* the map after the caller wrote the content d to the block that the key
\* of entry target points to (target 0: to a block no key points to)
overwrite(m, target, d) ==
    IF target = 0 THEN m ELSE [m EXCEPT ![target].first.data = d]

\* The caller writes to a buffer it handed to an earlier push_back as a
\* view, or releases it, after which anything may be read from it.
CallerOverwrites ==
    \E d \in ArrayData(comp), target \in {0} \cup Aliases(map) :
        /\ target # 0 => Len(d) = map[target].first.size
        /\ map' = overwrite(map, target, d)
        /\ call' = [NoCall(comp) EXCEPT !.op = "overwrite",
                        !.val = sized_ptr(d, "caller")]
        /\ UNCHANGED <<list, comp, pushed>>

\* the calls UniqueArrayList offers, push_back being push_back_with_hook
\* of a view with deepcopy, and what the caller does to its buffers
NextView ==
    \/ PushBackWithHook
    \/ EraseMany
    \/ EraseNonzero
    \/ CallerOverwrites

SpecView == InitView /\ [][NextView]_vars

\* the contents of the arrays that are compared: every array of at most
\* MaxLen elements in 0..MaxElem
CmpData == UNION {[1..n -> 0..MaxElem] : n \in 0..MaxLen}

CmpKeys == {sized_ptr(d, "caller") : d \in CmpData}

\* two arrays, and the comparator they are handed to: operator< or
\* strictly_less
InitCmp ==
    /\ list = <<>>
    /\ map = <<>>
    /\ comp \in {"sized_ptr", "strictly_less"}
    /\ call \in {[NoCall(comp) EXCEPT !.val = a, !.rhs = b] :
                    a \in CmpKeys, b \in CmpKeys}
    /\ pushed = {}

\* val < rhs, or strictly_less()(val, rhs)
Less ==
    /\ call.op = "none"
    /\ call' = [call EXCEPT !.op = "less",
                            !.second = Compare(call.val, call.rhs)]
    /\ UNCHANGED <<list, map, comp, pushed>>

NextCmp == Less

SpecCmp == InitCmp /\ [][NextCmp]_vars

(* strictly_less on scalars *)

\* the width of the model's int, in bits
IntBits == 3

\* the least int
MinInt == -(2 ^ (IntBits - 1))

\* the scalars that are compared: every int, and as many doubles
Scalars == MinInt..(-MinInt - 1)

\* the tolerances are multiples of 1 / TolDen, up to MaxTol / TolDen
TolDen == 2

MaxTol == 3

\* -b in the arithmetic of the operand type c: the negation of the least
\* int overflows, which is undefined; a build leaves the value as it is
\* (two's complement negation) or negates it in a wider register
Negations(c, b) ==
    IF c = "int" /\ b = MinInt THEN {MinInt, -MinInt}
    ELSE {-b}

\* (b > 0) ? b : -b
AbsOutcomes(c, b) == IF b > 0 THEN {b} ELSE Negations(c, b)

\* a < b - absb * rtol - atol, computed in double, for the tolerances
\* rtol / TolDen and atol / TolDen: both sides multiplied by TolDen
strictly_less_with(a, b, absb, rtol, atol) ==
    a * TolDen < b * TolDen - absb * rtol - atol

\* two scalars of one type, and a strictly_less(rtol, atol)
InitScalar ==
    /\ list = <<>>
    /\ map = <<>>
    /\ comp \in {"int", "double"}
    /\ call \in {[NoCall("less") EXCEPT !.val = a, !.rhs = b,
                                       !.rtol = rtol, !.atol = atol] :
                    a \in Scalars, b \in Scalars,
                    rtol \in 0..MaxTol, atol \in 0..MaxTol}
    /\ pushed = {}

\* strictly_less(rtol, atol)(val, rhs), and the same with the operands
\* exchanged
LessScalar ==
    /\ call.op = "none"
    /\ \E x \in AbsOutcomes(comp, call.rhs), y \in AbsOutcomes(comp, call.val) :
          call' = [call EXCEPT
                     !.op = "scalar_less",
                     !.second = strictly_less_with(call.val, call.rhs, x,
                                                   call.rtol, call.atol),
                     !.back = strictly_less_with(call.rhs, call.val, y,
                                                 call.rtol, call.atol)]
    /\ UNCHANGED <<list, map, comp, pushed>>

NextScalar == LessScalar

SpecScalar == InitScalar /\ [][NextScalar]_vars

(* Hooks that need not return a copy of their argument *)

\* uniquelist<int>, from construction on
InitHook ==
    /\ list = <<>>
    /\ map = <<>>
    /\ comp = "less"
    /\ call = NoCall(comp)
    /\ pushed = {}

\* list.push_back_with_hook(val, f), f any callable from int to int
PushBackWithAnyHook ==
    \E val \in Keys(comp), f \in AnyHooks :
        /\ Room(list, map, val)
        /\ \E r \in {push_back_with_hook(list, map, val, f)} :
           /\ list' = r.list
           /\ map' = r.map
           /\ call' = [NoCall(comp) EXCEPT !.op = "push_back_with_hook",
                           !.val = val, !.first = r.first,
                           !.second = r.second, !.hooked = r.hooked,
                           !.hook = f]
        /\ pushed' = pushed \cup {KeyRank(val)}
        /\ UNCHANGED comp

\* list.insert_with_hook(position, val, f), f any callable from int to int
InsertWithAnyHook ==
    \E val \in Keys(comp), position \in Positions(list), f \in AnyHooks :
        /\ Room(list, map, val)
        /\ \E r \in {insert_with_hook(list, map, position, val, f)} :
           /\ list' = r.list
           /\ map' = r.map
           /\ call' = [NoCall(comp) EXCEPT !.op = "insert_with_hook",
                           !.val = val, !.position = position,
                           !.first = r.first, !.second = r.second,
                           !.hooked = r.hooked, !.hook = f]
        /\ pushed' = pushed \cup {KeyRank(val)}
        /\ UNCHANGED comp

NextHook ==
    \/ PushBackWithAnyHook
    \/ InsertWithAnyHook
    \/ Clear
    \/ Isin

SpecHook == InitHook /\ [][NextHook]_vars

(* Hooks that throw *)

\* list.push_back_with_hook(val, f), f a callable that throws
PushBackWithThrowingHook ==
    \E val \in Keys(comp) :
        /\ \E r \in {push_back_with_hook(list, map, val, "throw")} :
           /\ list' = r.list
           /\ map' = r.map
           /\ call' = [NoCall(comp) EXCEPT !.op = "push_back_with_hook",
                           !.val = val, !.first = r.first,
                           !.second = r.second, !.hooked = r.hooked,
                           !.error = r.error, !.hook = "throw"]
        /\ UNCHANGED <<comp, pushed>>

\* list.insert_with_hook(position, val, f), f a callable that throws
InsertWithThrowingHook ==
    \E val \in Keys(comp), position \in Positions(list) :
        /\ \E r \in {insert_with_hook(list, map, position, val, "throw")} :
           /\ list' = r.list
           /\ map' = r.map
           /\ call' = [NoCall(comp) EXCEPT !.op = "insert_with_hook",
                           !.val = val, !.position = position,
                           !.first = r.first, !.second = r.second,
                           !.hooked = r.hooked, !.error = r.error,
                           !.hook = "throw"]
        /\ UNCHANGED <<comp, pushed>>

\* the calls of the container, and the hook calls whose hook throws
NextThrow ==
    \/ Next
    \/ PushBackWithThrowingHook
    \/ InsertWithThrowingHook

SpecThrow == Init /\ [][NextThrow]_vars

(* The Python module: the bindings of python_api.cpp *)

\* the longest index array handed to UniqueArrayList.erase
MaxErase == 2

\* the dimensions of the numpy arrays handed to the bindings
Ndims == {1, 2}

\* what a binding returns when it throws std::invalid_argument: the
\* container was not touched
invalid_argument(l, m) ==
    [list |-> l, map |-> m, first |-> 0, second |-> FALSE, hooked |-> 0,
     ub |-> FALSE, error |-> TRUE]

\* UniqueList.push_back(x)
UniqueList_push_back(l, m, x) == push_back(l, m, x)

\* UniqueList.erase_nonzero(removed): the array goes to the container as
\* it is
UniqueList_erase_nonzero(l, m, removed) ==
    [error |-> FALSE] @@ erase_nonzero(l, m, removed)

RECURSIVE index_loop(_, _)
\* the range-for of UniqueList.index over the elements from the i-th on
index_loop(items, x) ==
    IF items = <<>> THEN -1
    ELSE IF Head(items) = x THEN 0
    ELSE LET rest == index_loop(Tail(items), x) IN
         IF rest = -1 THEN -1 ELSE rest + 1

\* index that walks the sorted iteration
UniqueList_index_sorted(l, m, x) == index_loop(Sorted(m), x)

\* UniqueList.index(x)
UniqueList_index(l, m, x) == index_loop(Elements(l, m), x)

\* UniqueArrayList.push_back(array): a view of the caller's buffer is
\* pushed with deepcopy as the hook
UniqueArrayList_push_back(l, m, ndim, array) ==
    IF ndim # 1 THEN invalid_argument(l, m)
    ELSE [ub |-> FALSE, error |-> FALSE]
         @@ push_back_with_hook(l, m, sized_ptr(array, "caller"), "deepcopy")

\* UniqueArrayList.erase(removed)
UniqueArrayList_erase(l, m, ndim, removed) ==
    IF ndim # 1 THEN invalid_argument(l, m)
    ELSE [error |-> FALSE] @@ erase_many(l, m, removed)

\* UniqueArrayList.erase_nonzero(removed)
UniqueArrayList_erase_nonzero(l, m, ndim, removed) ==
    IF ndim # 1 THEN invalid_argument(l, m)
    ELSE IF Len(removed) # size(l) THEN invalid_argument(l, m)
    ELSE [error |-> FALSE] @@ erase_nonzero(l, m, removed)

\* the index arrays of the model: at most MaxErase indexes, each at most
\* size(), in any order
IndexArrays(l) == UNION {[1..n -> 0..size(l)] : n \in 0..MaxErase}

\* the flag arrays of the model: at most one flag more than size()
FlagArrays(l) == UNION {[1..n -> BOOLEAN] : n \in 0..(size(l) + 1)}

\* UniqueList() or UniqueArrayList(), just constructed
InitPy ==
    /\ list = <<>>
    /\ map = <<>>
    /\ comp \in {"less", "strictly_less"}
    /\ call = NoCall(comp)
    /\ pushed = {}

\* a.size(), of either class
PySize ==
    /\ ~call.ub
    /\ call' = [NoCall(comp) EXCEPT !.op = "py_size", !.first = size(list)]
    /\ UNCHANGED <<list, map, comp, pushed>>

\* a.push_back(x), a a UniqueList
PyListPushBack ==
    /\ ~call.ub
    /\ comp = "less"
    /\ \E x \in Keys(comp) :
        /\ Room(list, map, x)
        /\ \E r \in {UniqueList_push_back(list, map, x)} :
           /\ list' = r.list
           /\ map' = r.map
           /\ call' = [NoCall(comp) EXCEPT !.op = "py_push_back",
                           !.val = x, !.first = r.first,
                           !.second = r.second]
        /\ pushed' = pushed \cup {KeyRank(x)}
    /\ UNCHANGED comp

\* a.erase_nonzero(removed), a a UniqueList
PyListEraseNonzero ==
    /\ ~call.ub
    /\ comp = "less"
    /\ \E removed \in FlagArrays(list) :
        \E r \in {UniqueList_erase_nonzero(list, map, removed)} :
           /\ list' = r.list
           /\ map' = r.map
           /\ call' = [NoCall(comp) EXCEPT !.op = "py_erase_nonzero",
                           !.flag = removed, !.ub = r.ub,
                           !.error = r.error]
    /\ UNCHANGED <<comp, pushed>>

\* a.index(x), a a UniqueList
PyListIndex ==
    /\ ~call.ub
    /\ comp = "less"
    /\ \E x \in Keys(comp) :
        call' = [NoCall(comp) EXCEPT !.op = "py_index", !.val = x,
                     !.first = UniqueList_index(list, map, x)]
    /\ UNCHANGED <<list, map, comp, pushed>>

\* a.push_back(array), a a UniqueArrayList
PyArrayPushBack ==
    /\ ~call.ub
    /\ comp = "strictly_less"
    /\ \E ndim \in Ndims, x \in Keys(comp) :
        /\ Room(list, map, x)
        /\ \E r \in {UniqueArrayList_push_back(list, map, ndim, x.data)} :
           /\ list' = r.list
           /\ map' = r.map
           /\ call' = [NoCall(comp) EXCEPT !.op = "py_push_back",
                           !.val = x, !.ndim = ndim, !.first = r.first,
                           !.second = r.second, !.hooked = r.hooked,
                           !.error = r.error]
           /\ pushed' = IF r.error THEN pushed
                         ELSE pushed \cup {KeyRank(x)}
    /\ UNCHANGED comp

\* a.erase(removed), a a UniqueArrayList
PyArrayErase ==
    /\ ~call.ub
    /\ comp = "strictly_less"
    /\ \E ndim \in Ndims, removed \in IndexArrays(list) :
        \E r \in {UniqueArrayList_erase(list, map, ndim, removed)} :
           /\ list' = r.list
           /\ map' = r.map
           /\ call' = [NoCall(comp) EXCEPT !.op = "py_erase",
                           !.indexes = removed, !.ndim = ndim,
                           !.ub = r.ub, !.error = r.error]
    /\ UNCHANGED <<comp, pushed>>

\* a.erase_nonzero(removed), a a UniqueArrayList
PyArrayEraseNonzero ==
    /\ ~call.ub
    /\ comp = "strictly_less"
    /\ \E ndim \in Ndims, removed \in FlagArrays(list) :
        \E r \in {UniqueArrayList_erase_nonzero(list, map, ndim, removed)} :
           /\ list' = r.list
           /\ map' = r.map
           /\ call' = [NoCall(comp) EXCEPT !.op = "py_erase_nonzero",
                           !.flag = removed, !.ndim = ndim,
                           !.ub = r.ub, !.error = r.error]
    /\ UNCHANGED <<comp, pushed>>

\* a call of the Python module; nothing is defined after a call that left
\* the defined behaviour
NextPy ==
    \/ PySize
    \/ PyListPushBack
    \/ PyListEraseNonzero
    \/ PyListIndex
    \/ PyArrayPushBack
    \/ PyArrayErase
    \/ PyArrayEraseNonzero

SpecPy == InitPy /\ [][NextPy]_vars

\* UniqueList(), just constructed
InitPyList ==
    /\ list = <<>>
    /\ map = <<>>
    /\ comp = "less"
    /\ call = NoCall(comp)
    /\ pushed = {}

\* a call of UniqueList
NextPyList ==
    \/ PySize
    \/ PyListPushBack
    \/ PyListEraseNonzero
    \/ PyListIndex

SpecPyList == InitPyList /\ [][NextPyList]_vars

----------------------------------------------------------------------------
(* Vocabulary of the properties *)

\* a and b are comparator-equivalent: neither is less than the other
Equiv(a, b) == ~Compare(a, b) /\ ~Compare(b, a)

\* insertion-order and sorted-order iteration of the current container
Elems == Elements(list, map)

SortedElems == Sorted(map)

\* some live element (one that begin()..end() yields) is equivalent to v
Live(v) == \E i \in 1..Len(Elems) : Equiv(Elems[i], v)

InsertFamily == {"push_back", "insert", "push_back_with_hook", "insert_with_hook"}

HookFamily == {"push_back_with_hook", "insert_with_hook"}

\* s and t hold equivalent values position by position
SameClasses(s, t) ==
    /\ Len(s) = Len(t)
    /\ \A i \in 1..Len(s) : Equiv(s[i], t[i])

\* how often x occurs in the sequence s
Occurrences(s, x) == Cardinality({i \in 1..Len(s) : s[i] = x})

RECURSIVE Without(_, _, _)
\* the sequence s from position i on, less the positions in D
Without(s, D, i) ==
    IF i > Len(s) THEN <<>>
    ELSE (IF i \in D THEN <<>> ELSE <<s[i]>>) \o Without(s, D, i + 1)

\* The reference sequence: what the call c makes of the sequence e, where
\* l is the list the call found (it places the position handles).  A new
\* value is appended by the push_backs and placed before the position by
\* the inserts, a duplicate is ignored, erased positions are deleted.
Reference(e, l, c) ==
    LET dup == \E i \in 1..Len(e) : Equiv(e[i], c.val) IN
    CASE c.op \in {"push_back", "push_back_with_hook"} ->
            IF dup THEN e ELSE Append(e, c.val)
      [] c.op \in {"insert", "insert_with_hook"} ->
            IF dup THEN e ELSE InsertAt(e, IndexOf(l, c.position), c.val)
      [] c.op = "erase" -> Without(e, {IndexOf(l, c.position)}, 1)
      [] c.op \in {"erase_at", "erase_many"} ->
            Without(e, {c.indexes[k] + 1 : k \in 1..Len(c.indexes)}, 1)
      [] c.op = "erase_nonzero" ->
            Without(e, {k \in 1..Len(c.flag) : c.flag[k]}, 1)
      [] c.op = "clear" -> <<>>
      [] OTHER -> e

----------------------------------------------------------------------------
(* Properties *)

\* C1: a push_back of a value that no live element is equivalent to returns
\* isNew = true, makes size() one larger and makes the value the last
\* element of begin()..end(), the elements before it being those of before
\* the call in the same order.
C1_PushBackNew ==
    [][(call'.op = "push_back" /\ ~Live(call'.val))
        => /\ call'.second = TRUE
           /\ size(list') = size(list) + 1
           /\ Elements(list', map') = Append(Elems, call'.val)]_vars

\* reached: a push_back returned isNew = true with other elements before it
C1_Witness ==
    /\ call.op = "push_back"
    /\ call.second
    /\ size(list) >= 2
    /\ Elems[size(list)] = call.val

\* C2: an insert-family call with a value that some live element is
\* equivalent to returns isNew = false and changes neither size() nor what
\* begin()..end() yields nor what sbegin()..send() yields, whatever the
\* position handed to it.
C2_DuplicateNoChange ==
    [][(call'.op \in InsertFamily /\ Live(call'.val))
        => /\ call'.second = FALSE
           /\ size(list') = size(list)
           /\ Elements(list', map') = Elems
           /\ Sorted(map') = SortedElems]_vars

\* reached: a duplicate handed to insert_with_hook at a position that is
\* neither end() nor the duplicate's own element
C2_Witness ==
    /\ call.op = "insert_with_hook"
    /\ ~call.second
    /\ call.position # End
    /\ call.first # distance(list, call.position)

\* C3: after an insert-family call, the element that begin()..end() yields
\* at the returned position is equivalent to the value; for a new push_back
\* the returned position is the size() of before the call.
C3_ReturnedPosition ==
    [][/\ call'.op \in InsertFamily
          => /\ call'.first \in 0..(size(list') - 1)
             /\ Equiv(Elements(list', map')[call'.first + 1], call'.val)
       /\ (call'.op = "push_back" /\ call'.second)
          => call'.first = size(list)]_vars

\* reached: a duplicate handed to insert, reported at the position of its
\* element, which is neither the first nor the position handed in
C3_Witness ==
    /\ call.op = "insert"
    /\ ~call.second
    /\ call.first >= 1
    /\ call.first # distance(list, call.position)

\* C4: isin(v) is true exactly when some live element is equivalent to v,
\* for every v in every reachable state, and a call of isin returns that
\* and leaves the container as it was.
C4_Isin ==
    [][/\ \A v \in Keys(comp) :
            isin(map', v) <=>
                \E i \in 1..Len(list') : Equiv(Elements(list', map')[i], v)
       /\ call'.op = "isin"
          => /\ call'.second <=> Live(call'.val)
             /\ list' = list
             /\ map' = map]_vars

\* reached: isin answered true, and the container holds elements
C4_Witness ==
    /\ call.op = "isin"
    /\ call.second
    /\ size(list) >= 2

\* C5: no two live elements are comparator-equivalent (I2).
C5_NoEquivalentPair ==
    \A i, j \in 1..Len(Elems) : i # j => ~Equiv(Elems[i], Elems[j])

\* reached: a full container that has just been handed a duplicate by a
\* hook insert
C5_Witness ==
    /\ call.op \in HookFamily
    /\ ~call.second
    /\ size(list) = MaxSize

\* C6: begin()..end() follows the reference sequence through every call
\* (I3): from the empty sequence on, each call changes what the iteration
\* yields the way it changes the reference sequence.
C6_InsertionOrder ==
    [][\A before \in {Elems}, after \in {Elements(list', map')} :
            SameClasses(after, Reference(before, list, call'))]_vars

\* reached: a new value placed by insert between two elements
C6_Witness ==
    /\ call.op = "insert"
    /\ call.second
    /\ call.first = 1
    /\ size(list) = 3

\* C7: sbegin()..send() yields the elements that begin()..end() yields, each
\* of them once, in strictly ascending comparator order (I4).
C7_SortedOrder ==
    /\ Len(SortedElems) = Len(Elems)
    /\ \A i \in 1..Len(Elems) :
          Occurrences(Elems, Elems[i]) = 1 /\ Occurrences(SortedElems, Elems[i]) = 1
    /\ \A j \in 1..Len(SortedElems) : Occurrences(Elems, SortedElems[j]) = 1
    /\ \A i, j \in 1..Len(SortedElems) :
          i < j => Compare(SortedElems[i], SortedElems[j])

\* reached: a full container whose insertion order is not its sorted order,
\* its last call a positional insert of a new value
C7_Witness ==
    /\ call.op = "insert"
    /\ call.second
    /\ size(list) = MaxSize
    /\ Elems # SortedElems

\* C8: after every call the links pair the list nodes with the map nodes
\* (I1: the link of a node's link is the node, both ways), and size() is
\* the number of list nodes and the number of map nodes (I5).
C8_CrossLinks ==
    /\ \A i \in 1..Len(list) :
          /\ list[i].link \in NodesOf(map)
          /\ link_of(map, list[i].link) = list[i].node
    /\ \A j \in 1..Len(map) :
          /\ map[j].link \in NodesOf(list)
          /\ get_map_iterator(list, map[j].link) = map[j].node
    /\ size(list) = Len(list)
    /\ size(list) = Len(map)

\* reached: a bulk erase took two elements and left one
C8_Witness ==
    /\ call.op = "erase_many"
    /\ Len(call.indexes) = 2
    /\ size(list) = 1

\* C9: a hook insert runs the hook once when it returns isNew = true and
\* not at all when it returns isNew = false; when new, the element both
\* iterations yield is the hook's result, which for an array is the copy and
\* not the caller's block.
C9_HookCalls ==
    call.op \in HookFamily
    => /\ call.hooked = (IF call.second THEN 1 ELSE 0)
       /\ call.second
          => \A f \in Hooks(comp) :
                /\ Elems[call.first + 1] = Hook(f, call.val)
                /\ Occurrences(SortedElems, Hook(f, call.val)) = 1
       /\ (call.second /\ comp # "less")
          => Elems[call.first + 1] # call.val

\* reached: insert_with_hook stored a new array in front of another element
C9_Witness ==
    /\ call.op = "insert_with_hook"
    /\ call.second
    /\ call.hooked = 1
    /\ comp = "sized_ptr"
    /\ call.first + 1 < size(list)

\* C10: insert(p, v) of a value that no live element is equivalent to
\* returns isNew = true and the index p's element had (size() for end()),
\* and begin()..end() then yields v at that index, with p's element and all
\* later ones one index up and the order of the others as it was.
C10_InsertBefore ==
    [][(call'.op = "insert" /\ ~Live(call'.val))
        => /\ call'.second = TRUE
           /\ call'.first = IndexOf(list, call'.position) - 1
           /\ Elements(list', map')
                = InsertAt(Elems, IndexOf(list, call'.position), call'.val)]_vars

\* reached: a new value linked before a live element that is not the first
C10_Witness ==
    /\ call.op = "insert"
    /\ call.second
    /\ call.position # End
    /\ call.first >= 1
    /\ list[call.first + 2].node = call.position

\* the index (1-based) of the element that a single erase is asked to
\* remove from the list l: the handle's element, or the one at the index
ErasedIndex(l, c) ==
    IF c.op = "erase" THEN IndexOf(l, c.position) ELSE c.indexes[1] + 1

\* C11: erase(handle) and erase(index) of a live element remove that
\* element and no other from begin()..end() and from sbegin()..send():
\* size() drops by one, isin of its value becomes false, the other elements
\* keep their order in both iterations, and the returned handle is the one
\* of the element that followed in insertion order, end() if it was last.
C11_EraseOne ==
    [][call'.op \in {"erase", "erase_at"}
        => \A i \in {ErasedIndex(list, call')} :
              /\ size(list') = size(list) - 1
              /\ ~isin(map', Elems[i])
              /\ Elements(list', map') = RemoveAt(Elems, i)
              /\ \E k \in 1..Len(SortedElems) :
                    /\ SortedElems[k] = Elems[i]
                    /\ Sorted(map') = RemoveAt(SortedElems, k)
              /\ call'.it = (IF i < size(list) THEN list[i + 1].node ELSE End)
              /\ call'.it \in Positions(list')
              /\ call'.it # End
                 => first_of(map', get_map_iterator(list', call'.it))
                      = Elems[i + 1]]_vars

\* reached: erase(handle) removed an element that was neither first nor
\* last and returned the handle of the element that followed
C11_Witness ==
    /\ call.op = "erase"
    /\ call.it # End
    /\ size(list) = 2
    /\ IndexOf(list, call.it) = 2

\* the positions (1-based) whose flag is truthy
Flagged(flag) == {k \in 1..Len(flag) : flag[k]}

\* the values of the sequence s at the positions in D
ValuesAt(s, D) == {s[k] : k \in D}

\* C12: erase_nonzero(n, flag) with n = size() removes the elements whose
\* position before the call has a truthy flag and no others, and keeps the
\* rest in their order in both iterations; with no flag truthy the container
\* is as it was, with every flag truthy it is empty.
C12_EraseNonzero ==
    [][(call'.op = "erase_nonzero" /\ Len(call'.flag) = size(list))
        => \A D \in {Flagged(call'.flag)} :
              /\ Elements(list', map') = Without(Elems, D, 1)
              /\ size(list') = size(list) - Cardinality(D)
              /\ Sorted(map')
                    = Without(SortedElems,
                              {k \in 1..Len(SortedElems) :
                                  SortedElems[k] \in ValuesAt(Elems, D)}, 1)
              /\ D = {} => (list' = list /\ map' = map)
              /\ D = 1..size(list) => (list' = <<>> /\ map' = <<>>)]_vars

\* reached: erase_nonzero with a flag for each element, truthy for the
\* first and the last and falsy for the one between them
C12_Witness ==
    /\ call.op = "erase_nonzero"
    /\ call.flag = <<TRUE, FALSE, TRUE>>
    /\ size(list) = 1

\* C13: erase(n, indexes) with increasing indexes below size() removes the
\* n elements that were at those positions before the call, the indexes
\* counting positions as they were before any of the call's removals, and
\* keeps every other element in its order in both iterations.
C13_EraseMany ==
    [][call'.op = "erase_many"
        => \A D \in {{call'.indexes[k] + 1 : k \in 1..Len(call'.indexes)}} :
              /\ Elements(list', map') = Without(Elems, D, 1)
              /\ size(list') = size(list) - Len(call'.indexes)
              /\ Sorted(map')
                    = Without(SortedElems,
                              {k \in 1..Len(SortedElems) :
                                  SortedElems[k] \in ValuesAt(Elems, D)}, 1)]_vars

\* reached: erase(2, {0, 2}) on three elements, the second index naming a
\* position that the first removal shifted
C13_Witness ==
    /\ call.op = "erase_many"
    /\ call.indexes = <<0, 2>>
    /\ ~call.ub
    /\ size(list) = 1

\* a key of the class (KeyRank) c
ClassKey(c) ==
    IF comp = "less" THEN c - 1 ELSE sized_ptr(ArraysOf(comp)[c], "caller")

\* the classes handed in so far of which no element is in the container now
Erased == {c \in pushed : ~isin(map, ClassKey(c))}

\* C14: whatever insert-family and erase-family calls were made, size() is
\* the number of distinct classes handed in so far less the number of those
\* that are erased now, which is the number of distinct classes that have a
\* live element.
C14_SizeCountsClasses ==
    /\ size(list) = Cardinality(pushed) - Cardinality(Erased)
    /\ size(list) = Cardinality({KeyRank(Elems[i]) : i \in 1..Len(Elems)})

\* reached: three classes were handed in, two of them are erased, and the
\* most recent call is a push_back of the one that is live
C14_Witness ==
    /\ Cardinality(pushed) = 3
    /\ Cardinality(Erased) = 2
    /\ call.op = "push_back"
    /\ ~call.second

\* C15: push_back(v) made twice in a row from a state where v is not live
\* returns (pos, true) and then (pos, false) with the same pos, and the
\* second call leaves the list and the map exactly as the first left them.
C15_PushBackTwice ==
    [][call'.op = "push_back"
        => /\ ~Live(call'.val)
              => (call'.second /\ call'.first = size(list))
           /\ (call.op = "push_back" /\ call.second /\ call'.val = call.val)
              => /\ call'.first = call.first
                 /\ ~call'.second
                 /\ list' = list
                 /\ map' = map]_vars

\* reached: a push_back of the value of the last of three elements returned
\* (2, false), which is what the second of two push_backs in a row returns
C15_Witness ==
    /\ call.op = "push_back"
    /\ ~call.second
    /\ call.first = 2
    /\ size(list) = 3
    /\ Elems[3] = call.val

\* C16: clear() leaves size() = 0 and empty() true, both iterations without
\* elements and isin false for every value; a push_back made right after it
\* returns (0, true).  In every state empty() is true exactly when size()
\* is 0.
C16_Clear ==
    [][/\ call'.op = "clear"
          => /\ size(list') = 0
             /\ empty(list')
             /\ Elements(list', map') = <<>>
             /\ Sorted(map') = <<>>
             /\ \A v \in Keys(comp) : ~isin(map', v)
       /\ (call.op = "clear" /\ call'.op = "push_back")
          => (call'.first = 0 /\ call'.second)
       /\ empty(list) <=> (size(list) = 0)
       /\ empty(list') <=> (size(list') = 0)]_vars

\* reached: the container is empty after a clear() that found every class
\* handed in
C16_Witness ==
    /\ call.op = "clear"
    /\ Cardinality(pushed) = MaxSize
    /\ empty(list)
    /\ map = <<>>

\* the handles (list nodes) of the elements that the call c is asked to
\* erase from the list l
ErasedHandles(l, c) ==
    CASE c.op = "erase" -> {c.position}
      [] c.op \in {"erase_at", "erase_many"} ->
            {l[c.indexes[k] + 1].node : k \in 1..Len(c.indexes)}
      [] c.op = "erase_nonzero" -> {l[k].node : k \in Flagged(c.flag)}
      [] c.op = "clear" -> NodesOf(l)
      [] OTHER -> {}

\* C17: a handle to a live element e stays a handle to e over every
\* insert-family call and over every erase of other elements: it is still a
\* position of the list and dereferences to e; only the handles of the
\* erased elements stop being positions.  So insert(handle, v) of a new v
\* links v right before the element the handle was obtained for.
C17_StableHandles ==
    [][/\ \A h \in NodesOf(list) :
             IF h \in ErasedHandles(list, call')
             THEN h \notin NodesOf(list')
             ELSE /\ h \in NodesOf(list')
                  /\ deref(list', map', h) = deref(list, map, h)
       /\ (call'.op \in {"insert", "insert_with_hook"} /\ call'.second
               /\ call'.position # End)
          => /\ IndexOf(list', call'.position) = call'.first + 2
             /\ Equiv(Elements(list', map')[call'.first + 1], call'.val)
             /\ Elements(list', map')[call'.first + 2]
                  = deref(list, map, call'.position)]_vars

\* reached: insert_with_hook linked a new value before a handle's element
\* while a class handed in earlier is erased, the handle's element being
\* the last of two
C17_Witness ==
    /\ call.op = "insert_with_hook"
    /\ call.second
    /\ call.position # End
    /\ Erased # {}
    /\ size(list) = 2
    /\ IndexOf(list, call.position) = 2

\* strictly_less is a strict weak ordering on the set S of keys: both it
\* and the equivalence it induces are transitive
StrictWeak(S) ==
    \A a \in S, b \in S, c \in S :
        /\ (Compare(a, b) /\ Compare(b, c)) => Compare(a, c)
        /\ (Equiv(a, b) /\ Equiv(b, c)) => Equiv(a, c)

LiveSet == {Elems[i] : i \in 1..Len(Elems)}

\* the arrays a and b are tolerance-equivalent: of the same length, and
\* at every index neither element is less than the other by more than the
\* tolerance
WithinTolerance(a, b) ==
    /\ a.size = b.size
    /\ \A i \in 1..a.size :
          /\ ~strictly_less_scalar(a.data[i], b.data[i])
          /\ ~strictly_less_scalar(b.data[i], a.data[i])

\* some live array is tolerance-equivalent to v
LiveWithinTolerance(v) == \E i \in 1..Len(Elems) : WithinTolerance(Elems[i], v)

\* no two elements of the sequence s are tolerance-equivalent
NoPairWithinTolerance(s) ==
    \A i \in 1..Len(s), j \in 1..Len(s) :
        i # j => ~WithinTolerance(s[i], s[j])

\* C18, as claimed: with strictly_less over arrays, a push_back or
\* push_back_with_hook of v while some live array is tolerance-equivalent
\* to v returns isNew = false and stores nothing, so that no two live
\* arrays are ever tolerance-equivalent.
C18_ToleranceUnique ==
    [][call'.op \in {"push_back", "push_back_with_hook"}
        => /\ LiveWithinTolerance(call'.val)
              => /\ ~call'.second
                 /\ list' = list
                 /\ map' = map
           /\ NoPairWithinTolerance(Elements(list', map'))]_vars

\* C18, amended: with strictly_less over arrays, a push_back or
\* push_back_with_hook that returns isNew = false returns the position of a
\* live array tolerance-equivalent to v and stores nothing; when
\* strictly_less is a strict weak ordering on v and the live arrays, a live
\* array tolerance-equivalent to v makes the call return isNew = false; and
\* no two live arrays are tolerance-equivalent as long as strictly_less is
\* a strict weak ordering on the live arrays.
C18_ToleranceUniqueWhenStrictWeak ==
    [][call'.op \in {"push_back", "push_back_with_hook"}
        => /\ ~call'.second
              => /\ call'.first < size(list)
                 /\ WithinTolerance(Elems[call'.first + 1], call'.val)
                 /\ list' = list
                 /\ map' = map
                 /\ call'.hooked = 0
           /\ (LiveWithinTolerance(call'.val)
                    /\ StrictWeak(LiveSet \cup {call'.val}))
              => ~call'.second
           /\ \A after \in {Elements(list', map')} :
                 StrictWeak({after[i] : i \in 1..Len(after)})
                 => NoPairWithinTolerance(after)]_vars

\* reached: a push_back of <<1, 1>> found <<2, 1>>, which is within
\* tolerance of it, as the second element and returned (1, false)
C18_Witness ==
    /\ comp = "strictly_less"
    /\ call.op = "push_back"
    /\ call.val.data = <<1, 1>>
    /\ ~call.second
    /\ call.first = 1
    /\ Elems[2].data = <<2, 1>>

\* the comparison of two elements that the array comparison builds on:
\* < for operator<, the tolerance comparison for strictly_less
ScalarLess(x, y) ==
    IF comp = "strictly_less" THEN strictly_less_scalar(x, y) ELSE x < y

\* the indexes at which the scalar comparison tells a and b apart
Apart(a, b) ==
    {i \in 1..a.size :
        ScalarLess(a.data[i], b.data[i]) \/ ScalarLess(b.data[i], a.data[i])}

\* C19: for arrays a and b, with operator< and with strictly_less alike:
\* when a is shorter, a < b is true and b < a is false whatever they hold;
\* when they are equally long, a < b is what the scalar comparison says at
\* the first index at which it tells the elements apart, and a < b and
\* b < a are both false when there is no such index.  Arrays of different
\* lengths are never equivalent.
C19_Shortlex ==
    call.op = "less"
    => \A a \in {call.val}, b \in {call.rhs} :
          /\ a.size < b.size => (call.second /\ ~Compare(b, a))
          /\ a.size > b.size => (~call.second /\ Compare(b, a))
          /\ a.size # b.size => ~Equiv(a, b)
          /\ a.size = b.size
             => \A D \in {Apart(a, b)} :
                   IF D = {}
                   THEN ~call.second /\ ~Compare(b, a)
                   ELSE /\ call.second
                          = ScalarLess(a.data[Min(D)], b.data[Min(D)])
                        /\ Compare(b, a)
                          = ScalarLess(b.data[Min(D)], a.data[Min(D)])

\* reached: strictly_less found <<1, 0>> less than <<2, 3>>, the first
\* elements being within tolerance and the second ones deciding
C19_Witness ==
    /\ call.op = "less"
    /\ comp = "strictly_less"
    /\ call.val.data = <<1, 0>>
    /\ call.rhs.data = <<2, 3>>
    /\ call.second

\* C20: a push_back_with_hook(key, deepcopy) of a view that is new stores
\* an element of the key's length and content whose block is not the
\* caller's, deepcopy having run, and so allocated, once; for a duplicate
\* deepcopy does not run and nothing is stored.  When the caller later
\* overwrites or releases a buffer it handed in, no element of either
\* iteration and no isin answer changes.
C20_ViewIsCopied ==
    [][/\ call'.op = "push_back_with_hook"
          => IF call'.second
             THEN \A stored \in {Elements(list', map')[call'.first + 1]} :
                     /\ stored.size = call'.val.size
                     /\ stored.data = call'.val.data
                     /\ stored.ptr # call'.val.ptr
                     /\ call'.hooked = 1
             ELSE /\ call'.hooked = 0
                  /\ list' = list
                  /\ map' = map
       /\ call'.op = "overwrite"
          => /\ Elements(list', map') = Elems
             /\ Sorted(map') = SortedElems
             /\ \A v \in Keys(comp) : isin(map', v) = isin(map, v)]_vars

\* reached: the caller overwrote a buffer with a content that differs from
\* the first of two stored arrays
C20_Witness ==
    /\ call.op = "overwrite"
    /\ size(list) = 2
    /\ Elems[1].ptr = "copy"
    /\ Elems[1].data # call.val.data

\* the index array ix is strictly increasing, every index below n
WellFormedIndexes(ix, n) ==
    /\ \A k \in 1..Len(ix) : ix[k] \in 0..(n - 1)
    /\ \A k \in 1..(Len(ix) - 1) : ix[k] < ix[k + 1]

\* C21: erase_nonzero of UniqueList and of UniqueArrayList, called with a
\* flag array whose length is not size(), ends in an error and leaves the
\* container as it was.
C21_RejectsFlagLength ==
    [][(call'.op = "py_erase_nonzero" /\ Len(call'.flag) # size(list))
          => /\ call'.error
             /\ list' = list
             /\ map' = map]_vars

\* C22: erase of UniqueArrayList, called with an index array that is not
\* strictly increasing or holds an index that is not below size(), ends in
\* an error and leaves the container as it was.
C22_RejectsIndexOrder ==
    [][(/\ call'.op = "py_erase"
        /\ ~WellFormedIndexes(call'.indexes, size(list)))
          => /\ call'.error
             /\ list' = list
             /\ map' = map]_vars

\* C23: index(x) of UniqueList leaves the container as it was; for a live
\* x it returns the zero-based position of x in begin()..end(), which is
\* what push_back(x) returns with second = false; it returns -1 exactly
\* when isin(x) is false.
C23_Index ==
    [][call'.op = "py_index"
          => /\ list' = list
             /\ map' = map
             /\ (call'.first = -1) <=> ~isin(map, call'.val)
             /\ isin(map, call'.val)
                => /\ call'.first \in 0..(size(list) - 1)
                   /\ Elems[call'.first + 1] = call'.val
                   /\ \A r \in {push_back(list, map, call'.val)} :
                         /\ r.first = call'.first
                         /\ ~r.second]_vars

\* reached: index returned 1 for the second of two elements, which is the
\* smaller one
C23_Witness ==
    /\ call.op = "py_index"
    /\ call.first = 1
    /\ size(list) = 2
    /\ Elems[2] < Elems[1]
    /\ Elems[2] = call.val

\* the links pair the nodes of the list l with the nodes of the map m (I1)
Linked(l, m) ==
    /\ Len(l) = Len(m)
    /\ \A i \in 1..Len(l) :
          /\ l[i].link \in NodesOf(m)
          /\ link_of(m, l[i].link) = l[i].node
    /\ \A j \in 1..Len(m) :
          /\ m[j].link \in NodesOf(l)
          /\ get_map_iterator(l, m[j].link) = m[j].node

\* C24: a call of the insert family, whatever the hook returns, either
\* returns isNew = false and changes nothing, or adds one list node and one
\* map node that link to each other and leaves the link of every map node
\* that was there as it was.
C24_OnePairOrNoOp ==
    [][call'.op \in InsertFamily
          => \/ /\ ~call'.second
                /\ list' = list
                /\ map' = map
             \/ /\ call'.second
                /\ Len(list') = Len(list) + 1
                /\ Len(map') = Len(map) + 1
                /\ \E n \in NodesOf(list') \ NodesOf(list) :
                      \E k \in NodesOf(map') \ NodesOf(map) :
                         /\ get_map_iterator(list', n) = k
                         /\ link_of(map', k) = n
                /\ \A j \in 1..Len(map) :
                      /\ map[j].node \in NodesOf(map')
                      /\ link_of(map', map[j].node) = map[j].link]_vars

\* C25: when the hook of push_back_with_hook or insert_with_hook throws,
\* the container is as it was before the call: same list, same map (the
\* entry of the novelty test is gone), same size and iterations, isin of the
\* value false, the links still pairing the nodes.  The hook runs only for
\* a value that no live element is equivalent to, and a hook that throws
\* for such a value ends the call in the error.
C25_HookThrows ==
    [][call'.op \in HookFamily
          => /\ call'.error
                => /\ list' = list
                   /\ map' = map
                   /\ size(list') = size(list)
                   /\ Elements(list', map') = Elems
                   /\ Sorted(map') = SortedElems
                   /\ ~isin(map', call'.val)
                   /\ Linked(list', map')
             /\ call'.hooked > 0 => ~Live(call'.val)
             /\ (Throws(call'.hook) /\ ~Live(call'.val)) => call'.error]_vars

\* reached: the hook threw for a new array while the container held two
C25_Witness ==
    /\ call.op = "push_back_with_hook"
    /\ call.error
    /\ call.hooked = 1
    /\ comp = "sized_ptr"
    /\ size(list) = 2

\* C26: erase_nonzero(n, flag) with n below size() removes the elements
\* whose position before the call is below n and has a truthy flag, and no
\* others: the elements from position n on stay live, in their order, at
\* the end of begin()..end(), and size() drops by the number of truthy
\* flags.
C26_EraseNonzeroPrefix ==
    [][(call'.op = "erase_nonzero" /\ Len(call'.flag) < size(list))
        => \A D \in {Flagged(call'.flag)}, n \in {Len(call'.flag)} :
              \A after \in {Elements(list', map')} :
                 /\ after = Without(Elems, D, 1)
                 /\ size(list') = size(list) - Cardinality(D)
                 /\ SubSeq(after, Len(after) - (size(list) - n) + 1, Len(after))
                       = SubSeq(Elems, n + 1, size(list))
                 /\ \A i \in (n + 1)..size(list) : isin(map', Elems[i])
                 /\ Linked(list', map')]_vars

\* reached: erase_nonzero with two flags, the second truthy, that left two
\* elements of three
C26_Witness ==
    /\ call.op = "erase_nonzero"
    /\ call.flag = <<FALSE, TRUE>>
    /\ size(list) = 2

\* C27: for scalars a, b and tolerances rtol, atol >= 0, strictly_less(a, b)
\* is true only if a < b - |b| * rtol - atol; so strictly_less(a, a) is
\* false, strictly_less(a, b) and strictly_less(b, a) are not both true, and
\* neither is true when |a - b| <= atol.
C27_ScalarStrictOrder ==
    call.op = "scalar_less"
    => /\ call.second
          => call.val * TolDen
                < call.rhs * TolDen - Abs(call.rhs) * call.rtol - call.atol
       /\ call.val = call.rhs => ~call.second
       /\ ~(call.second /\ call.back)
       /\ Abs(call.val - call.rhs) * TolDen <= call.atol
          => (~call.second /\ ~call.back)

\* C27, for the operands whose negation is defined: doubles, and every int
\* but the least
C27_AwayFromLeastInt ==
    (comp = "int" => (call.val # MinInt /\ call.rhs # MinInt))
    => C27_ScalarStrictOrder

\* C28, as claimed: with strictly_less over arrays, after any sequence of
\* push_back calls sbegin()..send() never yields an element after one that
\* it is strictly less than (I4, for every pair of elements).
C28_SortedForEveryPair ==
    \A i, j \in 1..Len(SortedElems) :
        i < j => ~strictly_less(SortedElems[j], SortedElems[i])

\* C28, amended: with strictly_less over arrays, after any sequence of
\* push_back calls each element of sbegin()..send() is strictly less than
\* the one that follows it, and when strictly_less is a strict weak
\* ordering on the live arrays, than every later one.
C28_SortedForNeighbours ==
    /\ \A i \in 1..(Len(SortedElems) - 1) :
          strictly_less(SortedElems[i], SortedElems[i + 1])
    /\ StrictWeak(LiveSet)
       => \A i, j \in 1..Len(SortedElems) :
             i < j => /\ strictly_less(SortedElems[i], SortedElems[j])
                      /\ ~strictly_less(SortedElems[j], SortedElems[i])

\* reached: three arrays whose sorted iteration ends with one that is
\* strictly less than the first
C28_Witness ==
    /\ comp = "strictly_less"
    /\ call.op = "push_back"
    /\ call.second
    /\ Len(SortedElems) = 3
    /\ strictly_less(SortedElems[3], SortedElems[1])

\* C29: erase(n, indexes) with increasing indexes below size(), on every
\* container the calls can build and the empty one among them, never moves
\* its cursor before begin() or past end(), and with n = 0 it leaves the
\* container as it was.
C29_EraseManyTotal ==
    [][call'.op = "erase_many"
          => /\ ~call'.ub
             /\ call'.indexes = <<>> => (list' = list /\ map' = map)]_vars

\* C29, for a container that holds an element
C29_TotalWhenNotEmpty ==
    [][(call'.op = "erase_many" /\ ~empty(list))
          => /\ ~call'.ub
             /\ call'.indexes = <<>> => (list' = list /\ map' = map)]_vars

====
